---------------------------- MODULE Spec2Model ----------------------------
(***************************************************************************)
(* Tomato disease classification: the plant-presence filter                *)
(* (is_plant_image / validate_image_content), the TFLite wrapper           *)
(* (TomatoDiseasePredictor), the Flask /predict handler that runs on a     *)
(* threaded server, and the Streamlit model_prediction.                    *)
(*                                                                         *)
(* Probabilities are numerators over ProbDenom (p = k / ProbDenom), pixel  *)
(* statistics are pixel counts, the clock counts half seconds.             *)
(***************************************************************************)
EXTENDS Integers, Sequences, FiniteSets, TLC

\* ------------------------------------------------------------- bounds
MaxSide == 10        \* images are at most MaxSide x MaxSide pixels
ProbDenom == 10      \* probabilities are k / ProbDenom, k in 0..ProbDenom
MaxTime == 2         \* the wall clock runs 0..MaxTime half seconds
MaxRuns == 2         \* "Get Diagnosis" clicks of the Streamlit session

\* -------------------------------------------------- program constants
GreenPercent == 15   \* green_percentage > 15
EdgePercent == 2     \* edge_percentage > 2
InputSide == 256     \* image.resize((256, 256))

\* Python's None: where a string is held, and where a record, a sequence or a
\* vector is held.
None == "None"
Nil == [nil |-> TRUE]

\* The messages the handler flashes.
MsgNoFile == "No file selected"
MsgInvalidType == "Invalid file type. Please upload JPG, JPEG, or PNG files."
MsgModelUnavailable == "Model not available. Please contact administrator."
MsgSaveError == "Error saving file"
MsgNotPlant == "The uploaded image doesn't appear to contain plant material. Please upload a clear photo of a tomato leaf or plant."
MsgPassed == "Image validation passed."
MsgValidateError == "Error validating image: "
MsgLowConfidence == "The image quality is too low for reliable disease detection. Please upload a clearer image of a tomato leaf."
MsgProcessError == "Error processing image: "

DISEASE_CLASSES ==
    << "Bacterial spot", "Early blight", "Late blight", "Leaf Mold",
       "Septoria leaf spot", "Spider mites Two-spotted spider mite",
       "Target Spot", "Yellow Leaf Curl Virus", "Mosaic virus", "Healthy" >>

DISEASE_TREATMENTS ==
    [ n \in { "Bacterial spot", "Early blight", "Late blight", "Leaf Mold",
              "Septoria leaf spot", "Spider mites Two-spotted spider mite",
              "Target Spot", "Yellow Leaf Curl Virus", "Mosaic virus",
              "Healthy" } |-> <<"treatment", n>> ]

\* Python indexes DISEASE_CLASSES from 0.
ClassIdx == 0 .. (Len(DISEASE_CLASSES) - 1)
DiseaseName(i) == DISEASE_CLASSES[i + 1]

\* ------------------------------------------------ admissibility filter
\* What cv2 makes of a file: imread returns None ("none"), a later call
\* raises ("raise"), or the image decodes ("ok") with shape h x w, green_mask
\* holding `green` non-zero pixels and the Canny map `edge` non-zero pixels.
CvOutcomes == {"ok", "none", "raise"}

\* The body of is_plant_image's try block: [exc, ret].
IsPlantBody(img) ==
    IF img.cv = "none" THEN [exc |-> FALSE, ret |-> FALSE]
    ELSE IF img.cv = "raise" THEN [exc |-> TRUE, ret |-> FALSE]
    ELSE LET total_pixels == img.h * img.w
             \* (green_pixels / total_pixels) * 100 > 15, in whole numbers: the
             \* float quotient of an exact 15% (2%) times 100 is exactly 15.0
             \* (2.0), and any other ratio is further from it than rounding
             green_ok == img.green * 100 > GreenPercent * total_pixels
             edge_ok == img.edge * 100 > EdgePercent * total_pixels
         IN  [exc |-> FALSE, ret |-> (green_ok /\ edge_ok)]

is_plant_image_GreenAtLeast(img) ==
    IF img.cv # "ok" THEN [exc |-> FALSE, ret |-> FALSE]
    ELSE [exc |-> FALSE,
          ret |-> (img.green * 100 >= GreenPercent * (img.h * img.w)
                   /\ img.edge * 100 > EdgePercent * (img.h * img.w))]

is_plant_image_NoCatch(img) == IsPlantBody(img)

\* try: <body>  except Exception: return False
is_plant_image(img) ==
    LET r == IsPlantBody(img)
    IN  IF r.exc THEN [exc |-> FALSE, ret |-> FALSE] ELSE r

\* Returns (is_valid, message); an exception of is_plant_image is caught.
validate_image_content(img) ==
    LET p == is_plant_image(img)
    IN  IF p.exc THEN [exc |-> FALSE, ret |-> <<FALSE, MsgValidateError>>]
        ELSE IF ~p.ret THEN [exc |-> FALSE, ret |-> <<FALSE, MsgNotPlant>>]
        ELSE [exc |-> FALSE, ret |-> <<TRUE, MsgPassed>>]


\* ------------------------------------------------------- file names
\* A file name is a sequence of one-character strings.
UpperChars == <<"A", "E", "F", "G", "I", "J", "N", "P">>
LowerChars == <<"a", "e", "f", "g", "i", "j", "n", "p">>

\* str.lower(), one character
LowerChar(c) ==
    IF \E k \in DOMAIN UpperChars : UpperChars[k] = c
    THEN LowerChars[CHOOSE k \in DOMAIN UpperChars : UpperChars[k] = c]
    ELSE c

Lower(s) == [i \in DOMAIN s |-> LowerChar(s[i])]

\* filename.rsplit('.', 1)[1]: what follows the last dot
RSplitExt(s) ==
    LET last == CHOOSE i \in DOMAIN s :
                    s[i] = "." /\ \A j \in DOMAIN s : j > i => s[j] # "."
    IN  SubSeq(s, last + 1, Len(s))

ALLOWED_EXTENSIONS ==
    { <<"p", "n", "g">>, <<"j", "p", "g">>, <<"j", "p", "e", "g">> }

allowed_file_AnyExtension(filename) ==
    \E i \in DOMAIN filename : filename[i] = "."

\* '.' in filename and filename.rsplit('.', 1)[1].lower() in ALLOWED_EXTENSIONS
allowed_file(filename) ==
    /\ \E i \in DOMAIN filename : filename[i] = "."
    /\ Lower(RSplitExt(filename)) \in ALLOWED_EXTENSIONS

\* werkzeug's secure_filename on this alphabet: path separators become
\* spaces, "_".join(filename.split()), characters outside [A-Za-z0-9_.-]
\* are dropped, and "._" is stripped from both ends.
RECURSIVE JoinSplit(_, _, _)
JoinSplit(s, acc, gap) ==
    IF s = <<>> THEN acc
    ELSE IF Head(s) \in {" ", "/"} THEN JoinSplit(Tail(s), acc, acc # <<>>)
    ELSE JoinSplit(Tail(s),
                   (IF gap THEN Append(acc, "_") ELSE acc) \o <<Head(s)>>,
                   FALSE)

RECURSIVE StripLeft(_)
StripLeft(s) ==
    IF s # <<>> /\ Head(s) \in {".", "_"} THEN StripLeft(Tail(s)) ELSE s

RECURSIVE StripRight(_)
StripRight(s) ==
    IF s # <<>> /\ s[Len(s)] \in {".", "_"}
    THEN StripRight(SubSeq(s, 1, Len(s) - 1)) ELSE s

secure_filename(filename) == StripRight(StripLeft(JoinSplit(filename, <<>>, FALSE)))

\* datetime.now().strftime('%Y%m%d_%H%M%S_'): the clock cut to whole seconds
\* (the clock counts half seconds).
Timestamp(clock) == <<clock \div 2>>

\* The name save_uploaded_file stores the upload under, Nil when it saves
\* nothing.
save_uploaded_file(filename, clock) ==
    IF filename # <<>> /\ allowed_file(filename)
    THEN Timestamp(clock) \o secure_filename(filename)
    ELSE Nil

\* --------------------------------------------------------- classifier
\* A probability vector: class index -> numerator over ProbDenom.
Dist(f) == [c \in ClassIdx |-> IF c \in DOMAIN f THEN f[c] ELSE 0]

\* channels of img_to_array for a PIL mode
Channels(mode) ==
    CASE mode = "RGB" -> 3
      [] mode = "RGBA" -> 4
      [] mode = "L" -> 1
      [] mode = "P" -> 1

Modes == {"RGB", "RGBA", "L", "P"}

\* The shape the model's input tensor has; set_tensor raises on any other.
ModelInputShape == <<1, InputSide, InputSide, 3>>

\* if image.mode != 'RGB': image = image.convert('RGB')
ConvertMode(mode) == IF mode # "RGB" THEN "RGB" ELSE mode

\* resize((256, 256)); img_to_array; np.array([input_arr])
TensorShape(mode) == <<1, InputSide, InputSide, Channels(mode)>>

\* np.argmax: the first index holding the maximum
ArgMax(v) ==
    CHOOSE i \in ClassIdx :
        /\ \A j \in ClassIdx : v[j] <= v[i]
        /\ \A j \in ClassIdx : j < i => v[j] < v[i]

LowConfidence_AtMost(confidence) == confidence * 10 <= 3 * ProbDenom

\* confidence < 0.3, with confidence = k / ProbDenom
LowConfidence(confidence) == confidence * 10 < 3 * ProbDenom

\* np.argsort(v)[-n:]: the last n places of an ascending order of v. numpy's
\* default sort is not stable, so equal entries may come in any order: the
\* set of the tails the call can return.
RECURSIVE ArgsortTail(_, _, _)
ArgsortTail(v, S, n) ==
    IF n = 0 \/ S = {} THEN { <<>> }
    ELSE UNION { { Append(t, m) : t \in ArgsortTail(v, S \ {m}, n - 1) } :
                 m \in { i \in S : \A j \in S : v[j] <= v[i] } }

Reverse(s) == [i \in DOMAIN s |-> s[Len(s) + 1 - i]]

Top3Indices_NoReverse(v) == ArgsortTail(v, ClassIdx, 3)

\* np.argsort(all_predictions)[-3:][::-1]
Top3Indices(v) == { Reverse(t) : t \in ArgsortTail(v, ClassIdx, 3) }

\* [(DISEASE_CLASSES[i], float(all_predictions[i]) * 100) for i in top_3_indices]
\* (the percentage p * 100 is kept as the numerator of p)
Top3Predictions(v, idx) == [k \in DOMAIN idx |-> <<DiseaseName(idx[k]), v[idx[k]]>>]

\* ------------------------------------------------------------- images
\* The files a user can upload: what cv2 makes of the file (cv, h, w, green,
\* edge), whether PIL opens it (pil) and in which mode, and the vector the
\* model's forward pass yields on its tensor (probs).
Images ==
    [ leaf   |-> [cv |-> "ok", h |-> MaxSide, w |-> MaxSide, green |-> 4 * MaxSide,
                  edge |-> MaxSide, pil |-> TRUE, mode |-> "RGB",
                  probs |-> Dist(0 :> (ProbDenom - 1) @@ 1 :> 1)],
      blurry |-> [cv |-> "ok", h |-> MaxSide, w |-> MaxSide, green |-> 5 * MaxSide,
                  edge |-> MaxSide, pil |-> TRUE, mode |-> "RGB",
                  probs |-> Dist(2 :> 2 @@ 3 :> 2 @@ 4 :> 2 @@ 5 :> 2
                                 @@ 6 :> (ProbDenom - 8))],
      faint  |-> [cv |-> "ok", h |-> MaxSide, w |-> MaxSide, green |-> 6 * MaxSide,
                  edge |-> MaxSide, pil |-> TRUE, mode |-> "RGB",
                  probs |-> Dist(7 :> 3 @@ 8 :> 3 @@ 9 :> 2
                                 @@ 0 :> (ProbDenom - 8))],
      car    |-> [cv |-> "ok", h |-> MaxSide, w |-> MaxSide, green |-> 1,
                  edge |-> MaxSide, pil |-> TRUE, mode |-> "RGB",
                  probs |-> Dist(9 :> ProbDenom)],
      blob   |-> [cv |-> "none", h |-> 0, w |-> 0, green |-> 0, edge |-> 0,
                  pil |-> FALSE, mode |-> "RGB", probs |-> Dist(<<>>)],
      odd    |-> [cv |-> "ok", h |-> MaxSide, w |-> MaxSide, green |-> 7 * MaxSide,
                  edge |-> MaxSide, pil |-> FALSE, mode |-> "RGB",
                  probs |-> Dist(<<>>)],
      huge   |-> [cv |-> "raise", h |-> 0, w |-> 0, green |-> 0, edge |-> 0,
                  pil |-> TRUE, mode |-> "RGB",
                  probs |-> Dist(3 :> ProbDenom)],
      rgba   |-> [cv |-> "ok", h |-> MaxSide, w |-> MaxSide, green |-> 8 * MaxSide,
                  edge |-> MaxSide, pil |-> TRUE, mode |-> "RGBA",
                  probs |-> Dist(4 :> (ProbDenom - 2) @@ 5 :> 2)],
      gray   |-> [cv |-> "ok", h |-> MaxSide, w |-> MaxSide, green |-> 0,
                  edge |-> MaxSide, pil |-> TRUE, mode |-> "L",
                  probs |-> Dist(6 :> (ProbDenom - 3) @@ 7 :> 3)],
      palette |-> [cv |-> "ok", h |-> MaxSide, w |-> MaxSide, green |-> 9 * MaxSide,
                  edge |-> MaxSide, pil |-> TRUE, mode |-> "P",
                  probs |-> Dist(8 :> (ProbDenom - 4) @@ 9 :> 4)] ]

ImageIds == DOMAIN Images

\* What cv2.imread sees of a path that holds no file: None.
MissingFile == [cv |-> "none", h |-> 0, w |-> 0, green |-> 0, edge |-> 0]

NameJpg == <<"a", ".", "j", "p", "g">>
NamePng == <<"a", ".", "P", "N", "G">>
NameGif == <<"a", ".", "g", "i", "f">>
NameEmpty == <<>>

\* request.files of a POST: no 'file' part at all (NoFile), or a part with
\* its file name and content.
NoFile == [name |-> Nil, img |-> None]

Uploads ==
    {NoFile}
    \cup { [name |-> NameEmpty, img |-> "leaf"], [name |-> NameGif, img |-> "leaf"],
           [name |-> NamePng, img |-> "blurry"] }
    \cup { [name |-> NameJpg, img |-> i] :
             i \in {"leaf", "blurry", "faint", "car", "blob", "odd", "huge", "rgba"} }

\* ---------------------------------------------------------------- state
VARIABLES
    \* the Flask process
    boot,           \* "importing", "serving" or "crashed"
    model_file,     \* the artifact on disk: "ok", "missing" or "corrupt"
    predictor,      \* None or "loaded"
    loads,          \* tf.lite.Interpreter constructions of the Flask process
    input_tensor,   \* the shared interpreter's input buffer
    output_tensor,  \* the shared interpreter's output buffer
    now,            \* the wall clock, in half seconds
    files,          \* the upload folder: stored name -> content
    db,             \* the persisted Prediction records
    \* one /predict request each
    pc, upload, filename, verdict, calls, fed, result, flash, rendered,
    \* the Streamlit session
    st_pc, st_image, st_loads, st_tensor, st_output, st_result, st_runs,
    \* one application of the filter, and one of the ranking
    f_pc, f_img, f_out, k_pc, k_vec, k_out,
    \* direct calls of predictor.predict on the shared predictor
    w_pc, w_img, w_res

flaskVars == <<boot, model_file, predictor, loads, input_tensor, output_tensor,
               now, files, db, pc, upload, filename, verdict, calls, fed,
               result, flash, rendered>>
stVars == <<st_pc, st_image, st_loads, st_tensor, st_output, st_result, st_runs>>
fVars == <<f_pc, f_img, f_out>>
kVars == <<k_pc, k_vec, k_out>>
wVars == <<w_pc, w_img, w_res>>
vars == <<flaskVars, stVars, fVars, kVars, wVars>>

\* Two /predict requests, served by two threads of the threaded server.
Requests == {1, 2}

\* current_user.id of the session a request belongs to
current_user(r) == r

FlaskInit ==
    /\ boot = "importing"
    /\ model_file \in {"ok", "missing", "corrupt"}
    /\ predictor = None
    /\ loads = 0
    /\ input_tensor = Nil
    /\ output_tensor = Nil
    /\ now = 0
    /\ files = <<>>
    /\ db = {}
    /\ pc = [r \in Requests |-> "start"]
    /\ upload = [r \in Requests |-> Nil]
    /\ filename = [r \in Requests |-> Nil]
    /\ verdict = [r \in Requests |-> None]
    /\ calls = [r \in Requests |-> 0]
    /\ fed = [r \in Requests |-> None]
    /\ result = [r \in Requests |-> Nil]
    /\ flash = [r \in Requests |-> None]
    /\ rendered = [r \in Requests |-> Nil]

StInit ==
    /\ st_pc = "idle"
    /\ st_image = None
    /\ st_loads = 0
    /\ st_tensor = Nil
    /\ st_output = Nil
    /\ st_result = Nil
    /\ st_runs = 0

FIdle == f_pc = "off" /\ f_img = Nil /\ f_out = Nil
KIdle == k_pc = "off" /\ k_vec = Nil /\ k_out = Nil

\* The callers of predictor.predict that the wrapper specification follows.
Callers == {1, 2, 3}

WIdle ==
    /\ w_pc = [c \in Callers |-> "off"]
    /\ w_img = [c \in Callers |-> None]
    /\ w_res = [c \in Callers |-> Nil]

\* ------------------------------------------------- the Flask process
\* TomatoDiseasePredictor(model_path) when os.path.exists(model_path), else
\* predictor = None: [exc, predictor, loaded]. tf.lite.Interpreter raises on
\* a file it cannot load.
InitPredictorBody(mf) ==
    IF mf = "missing" THEN [exc |-> FALSE, predictor |-> None, loaded |-> 0]
    ELSE IF mf = "corrupt" THEN [exc |-> TRUE, predictor |-> None, loaded |-> 0]
    ELSE [exc |-> FALSE, predictor |-> "loaded", loaded |-> 1]

\* try: <body>  except Exception: predictor = None
InitPredictor(mf) ==
    LET r == InitPredictorBody(mf)
    IN  IF r.exc THEN [exc |-> FALSE, predictor |-> None, loaded |-> 0] ELSE r

\* The import of app.py: the model is loaded before any request is served.
LoadPredictor ==
    /\ UNCHANGED <<stVars, fVars, kVars, wVars>>
    /\ boot = "importing"
    /\ LET r == InitPredictor(model_file)
       IN  /\ boot' = IF r.exc THEN "crashed" ELSE "serving"
           /\ predictor' = r.predictor
           /\ loads' = loads + r.loaded
    /\ UNCHANGED <<model_file, input_tensor, output_tensor, now, files, db, pc,
                   upload, filename, verdict, calls, fed, result, flash, rendered>>

Tick ==
    /\ UNCHANGED <<stVars, fVars, kVars, wVars>>
    /\ now < MaxTime
    /\ now' = now + 1
    /\ UNCHANGED <<boot, model_file, predictor, loads, input_tensor, output_tensor,
                   files, db, pc, upload, filename, verdict, calls, fed, result,
                   flash, rendered>>

PreCheck_NoModelCheck(u, pred) ==
    IF u = NoFile THEN MsgNoFile
    ELSE IF u.name = <<>> THEN MsgNoFile
    ELSE IF ~allowed_file(u.name) THEN MsgInvalidType
    ELSE None

\* The early returns of predict() before its try block: the message flashed,
\* None when the request goes on.
PreCheck(u, pred) ==
    IF u = NoFile THEN MsgNoFile
    ELSE IF u.name = <<>> THEN MsgNoFile
    ELSE IF ~allowed_file(u.name) THEN MsgInvalidType
    ELSE IF pred = None THEN MsgModelUnavailable
    ELSE None

RemoveFile(f, k) == [x \in DOMAIN f \ {k} |-> f[x]]

\* POST /predict up to save_uploaded_file: the early returns, then the upload
\* is written under its timestamped name (file.save may raise).
Receive(r) ==
    /\ UNCHANGED <<stVars, fVars, kVars, wVars>>
    /\ boot = "serving"
    /\ pc[r] = "start"
    /\ \E u \in Uploads :
        /\ upload' = [upload EXCEPT ![r] = u]
        /\ LET msg == PreCheck(u, predictor)
               fn == save_uploaded_file(u.name, now)
           IN  \/ /\ msg # None
                  /\ flash' = [flash EXCEPT ![r] = msg]
                  /\ pc' = [pc EXCEPT ![r] = "done"]
                  /\ UNCHANGED <<files, filename>>
               \/ /\ msg = None
                  /\ IF fn = Nil
                     THEN /\ flash' = [flash EXCEPT ![r] = MsgSaveError]
                          /\ pc' = [pc EXCEPT ![r] = "done"]
                          /\ UNCHANGED <<files, filename>>
                     ELSE /\ files' = (fn :> u.img) @@ files
                          /\ filename' = [filename EXCEPT ![r] = fn]
                          /\ pc' = [pc EXCEPT ![r] = "saved"]
                          /\ UNCHANGED flash
               \/ /\ msg = None
                  /\ fn # Nil
                  /\ flash' = [flash EXCEPT ![r] = MsgProcessError]
                  /\ pc' = [pc EXCEPT ![r] = "done"]
                  /\ UNCHANGED <<files, filename>>
    /\ UNCHANGED <<boot, model_file, predictor, loads, input_tensor, output_tensor,
                   now, db, verdict, calls, fed, result, rendered>>

AfterValidation_GoOn(is_valid) == "validated"

\* if not is_valid: ... return redirect(request.url)
AfterValidation(is_valid) == IF is_valid THEN "validated" ELSE "removing"

\* validate_image_content(file_path) and the branch on its verdict.
Validate(r) ==
    /\ UNCHANGED <<stVars, fVars, kVars, wVars>>
    /\ pc[r] = "saved"
    /\ LET seen == IF filename[r] \in DOMAIN files
                   THEN Images[files[filename[r]]] ELSE MissingFile
           v == validate_image_content(seen)
       IN  IF v.exc
           THEN /\ flash' = [flash EXCEPT ![r] = MsgProcessError]
                /\ pc' = [pc EXCEPT ![r] = "done"]
                /\ verdict' = [verdict EXCEPT ![r] = "raised"]
           ELSE /\ verdict' = [verdict EXCEPT ![r] =
                                  IF v.ret[1] THEN "accept" ELSE "reject"]
                /\ flash' = [flash EXCEPT ![r] =
                                IF v.ret[1] THEN flash[r] ELSE v.ret[2]]
                /\ pc' = [pc EXCEPT ![r] = AfterValidation(v.ret[1])]
    /\ UNCHANGED <<boot, model_file, predictor, loads, input_tensor, output_tensor,
                   now, files, db, upload, filename, calls, fed, result, rendered>>

\* try: os.remove(file_path) except: pass; return redirect(request.url)
Remove(r) ==
    /\ UNCHANGED <<stVars, fVars, kVars, wVars>>
    /\ pc[r] = "removing"
    /\ files' = RemoveFile(files, filename[r])
    /\ pc' = [pc EXCEPT ![r] = "done"]
    /\ UNCHANGED <<boot, model_file, predictor, loads, input_tensor, output_tensor,
                   now, db, upload, filename, verdict, calls, fed, result, flash,
                   rendered>>

\* predictor.predict(file_path) up to interpreter.set_tensor: Image.open,
\* convert, resize, img_to_array. Whatever raises lands in predict()'s
\* except Exception.
SetTensor(r) ==
    /\ UNCHANGED <<stVars, fVars, kVars, wVars>>
    /\ pc[r] = "validated"
    /\ calls' = [calls EXCEPT ![r] = calls[r] + 1]
    /\ LET present == filename[r] \in DOMAIN files
           id == files[filename[r]]
           shape == TensorShape(ConvertMode(Images[id].mode))
       IN  IF predictor # None /\ present /\ Images[id].pil
              /\ shape = ModelInputShape
           THEN /\ input_tensor' = [shape |-> shape, pixels |-> id]
                /\ fed' = [fed EXCEPT ![r] = id]
                /\ pc' = [pc EXCEPT ![r] = "set"]
                /\ UNCHANGED flash
           ELSE /\ flash' = [flash EXCEPT ![r] = MsgProcessError]
                /\ pc' = [pc EXCEPT ![r] = "done"]
                /\ UNCHANGED <<input_tensor, fed>>
    /\ UNCHANGED <<boot, model_file, predictor, loads, output_tensor, now, files,
                   db, upload, filename, verdict, result, rendered>>

\* The model's forward pass on a tensor.
Forward(tensor) == Images[tensor.pixels].probs

\* self.interpreter.invoke(): the shared output buffer takes the forward pass
\* of whatever the shared input buffer holds.
Invoke(r) ==
    /\ UNCHANGED <<stVars, fVars, kVars, wVars>>
    /\ pc[r] = "set"
    /\ output_tensor' = Forward(input_tensor)
    /\ pc' = [pc EXCEPT ![r] = "invoked"]
    /\ UNCHANGED <<boot, model_file, predictor, loads, input_tensor, now, files,
                   db, upload, filename, verdict, calls, fed, result, flash,
                   rendered>>

\* get_tensor, argmax and confidence, then predict()'s threshold, ranking and
\* db.session.commit() (which may raise).
Finish(r) ==
    /\ UNCHANGED <<stVars, fVars, kVars, wVars>>
    /\ pc[r] = "invoked"
    /\ LET predictions == output_tensor
           predicted_class == ArgMax(predictions)
           confidence == predictions[predicted_class]
           disease_name == DiseaseName(predicted_class)
       IN  /\ result' = [result EXCEPT ![r] =
                 [class |-> predicted_class, confidence |-> confidence,
                  all |-> predictions]]
           /\ \/ /\ LowConfidence(confidence)
                 /\ flash' = [flash EXCEPT ![r] = MsgLowConfidence]
                 /\ pc' = [pc EXCEPT ![r] = "removing"]
                 /\ UNCHANGED <<db, rendered>>
              \/ /\ ~LowConfidence(confidence)
                 /\ \E top_3_indices \in Top3Indices(predictions) :
                      /\ db' = db \cup
                           { [req |-> r, user_id |-> current_user(r),
                              image_filename |-> filename[r],
                              prediction |-> disease_name,
                              confidence |-> confidence] }
                      /\ rendered' = [rendered EXCEPT ![r] =
                           [disease_name |-> disease_name,
                            confidence |-> confidence,
                            treatment |-> DISEASE_TREATMENTS[disease_name],
                            image_filename |-> filename[r],
                            top_predictions |->
                                Top3Predictions(predictions, top_3_indices)]]
                 /\ pc' = [pc EXCEPT ![r] = "done"]
                 /\ UNCHANGED flash
              \/ /\ ~LowConfidence(confidence)
                 /\ flash' = [flash EXCEPT ![r] = MsgProcessError]
                 /\ pc' = [pc EXCEPT ![r] = "done"]
                 /\ UNCHANGED <<db, rendered>>
    /\ UNCHANGED <<boot, model_file, predictor, loads, input_tensor, output_tensor,
                   now, files, upload, filename, verdict, calls, fed>>

Init == FlaskInit /\ StInit /\ FIdle /\ KIdle /\ WIdle

Next ==
    \/ LoadPredictor
    \/ Tick
    \/ \E r \in Requests : Receive(r)
    \/ \E r \in Requests : Validate(r)
    \/ \E r \in Requests : Remove(r)
    \/ \E r \in Requests : SetTensor(r)
    \/ \E r \in Requests : Invoke(r)
    \/ \E r \in Requests : Finish(r)

Spec == Init /\ [][Next]_vars

\* ------------------------------------------------ the Streamlit session
\* The uploads the page's file_uploader hands to model_prediction.
StImages == {"leaf", "blurry", "faint", "car", "blob", "rgba", "gray", "palette"}

\* A new script run: the page is drawn again with the uploaded file.
StUpload ==
    /\ UNCHANGED <<flaskVars, fVars, kVars, wVars>>
    /\ st_pc = "idle"
    /\ st_runs < MaxRuns
    /\ \E i \in StImages : st_image' = i
    /\ st_pc' = "uploaded"
    /\ st_result' = Nil
    /\ UNCHANGED <<st_loads, st_tensor, st_output, st_runs>>

\* model_prediction: tf.lite.Interpreter(model_path=...); allocate_tensors().
\* A missing or corrupt file raises, and the run ends with the error shown.
StLoad ==
    /\ UNCHANGED <<flaskVars, fVars, kVars, wVars>>
    /\ st_pc = "uploaded"
    /\ st_runs' = st_runs + 1
    /\ IF model_file = "ok"
       THEN /\ st_loads' = st_loads + 1
            /\ st_pc' = "loaded"
            /\ UNCHANGED st_result
       ELSE /\ st_result' = [error |-> TRUE]
            /\ st_pc' = "idle"
            /\ UNCHANGED st_loads
    /\ UNCHANGED <<st_image, st_tensor, st_output>>

\* Image.open, resize, img_to_array, np.array([input_arr]), set_tensor: the
\* image keeps its mode, and set_tensor raises on a shape that is not the
\* model's.
StSetTensor ==
    /\ UNCHANGED <<flaskVars, fVars, kVars, wVars>>
    /\ st_pc = "loaded"
    /\ IF ~Images[st_image].pil
       THEN /\ st_result' = [error |-> TRUE]
            /\ st_pc' = "idle"
            /\ UNCHANGED st_tensor
       ELSE LET shape == TensorShape(Images[st_image].mode)
            IN  /\ st_tensor' = [shape |-> shape, pixels |-> st_image]
                /\ IF shape = ModelInputShape
                   THEN st_pc' = "set" /\ UNCHANGED st_result
                   ELSE st_pc' = "idle" /\ st_result' = [error |-> TRUE]
    /\ UNCHANGED <<st_image, st_loads, st_output, st_runs>>

StInvoke ==
    /\ UNCHANGED <<flaskVars, fVars, kVars, wVars>>
    /\ st_pc = "set"
    /\ st_output' = Forward(st_tensor)
    /\ st_pc' = "invoked"
    /\ UNCHANGED <<st_image, st_loads, st_tensor, st_result, st_runs>>

\* return np.argmax(predictions), shown as class_name[result_index]
StShow ==
    /\ UNCHANGED <<flaskVars, fVars, kVars, wVars>>
    /\ st_pc = "invoked"
    /\ st_result' = [index |-> ArgMax(st_output)]
    /\ st_pc' = "idle"
    /\ UNCHANGED <<st_image, st_loads, st_tensor, st_output, st_runs>>

StNext == StUpload \/ StLoad \/ StSetTensor \/ StInvoke \/ StShow

SpecStreamlit == Init /\ [][StNext]_vars

\* --------------------------------------- the filter on its own inputs
FilterInputs ==
    { [cv |-> c, h |-> 0, w |-> 0, green |-> 0, edge |-> 0] : c \in {"none", "raise"} }
    \cup UNION { [cv : {"ok"}, h : {MaxSide}, w : {x},
                  green : 0 .. (MaxSide * x), edge : 0 .. (MaxSide * x)] :
                 x \in 1 .. MaxSide }

FInit ==
    /\ FlaskInit /\ model_file = "ok" /\ StInit /\ KIdle /\ WIdle
    /\ f_pc = "input"
    /\ f_img \in FilterInputs
    /\ f_out = Nil

FIsPlant ==
    /\ UNCHANGED <<flaskVars, stVars, kVars, wVars>>
    /\ f_pc = "input"
    /\ f_out' = [fn |-> "is_plant_image", r |-> is_plant_image(f_img)]
    /\ f_pc' = "done"
    /\ UNCHANGED f_img

FValidate ==
    /\ UNCHANGED <<flaskVars, stVars, kVars, wVars>>
    /\ f_pc = "input"
    /\ f_out' = [fn |-> "validate_image_content", r |-> validate_image_content(f_img)]
    /\ f_pc' = "done"
    /\ UNCHANGED f_img

FNext == FIsPlant \/ FValidate

SpecFilter == FInit /\ [][FNext]_vars

\* -------------------------------------- the ranking on its own inputs
\* Every vector with at most four non-zero entries.
RankInputs ==
    { Dist(q[1] :> q[5] @@ q[2] :> q[6] @@ q[3] :> q[7]
           @@ q[4] :> (ProbDenom - q[5] - q[6] - q[7])) :
      q \in { x \in ClassIdx \X ClassIdx \X ClassIdx \X ClassIdx
                    \X (0 .. ProbDenom) \X (0 .. ProbDenom) \X (0 .. ProbDenom) :
              /\ x[1] < x[2] /\ x[2] < x[3] /\ x[3] < x[4]
              /\ x[5] + x[6] + x[7] <= ProbDenom } }

KInit ==
    /\ FlaskInit /\ model_file = "ok" /\ StInit /\ FIdle /\ WIdle
    /\ k_pc = "input"
    /\ k_vec \in RankInputs
    /\ k_out = Nil

\* The tail of TomatoDiseasePredictor.predict: argmax and confidence.
KPredict ==
    /\ UNCHANGED <<flaskVars, stVars, fVars, wVars>>
    /\ k_pc = "input"
    /\ k_out' = [class |-> ArgMax(k_vec), confidence |-> k_vec[ArgMax(k_vec)],
                 top_3_indices |-> Nil, top_3_predictions |-> Nil]
    /\ k_pc' = "predicted"
    /\ UNCHANGED k_vec

\* predict()'s top-3 list of the returned vector.
KTop3 ==
    /\ UNCHANGED <<flaskVars, stVars, fVars, wVars>>
    /\ k_pc = "predicted"
    /\ \E idx \in Top3Indices(k_vec) :
         k_out' = [k_out EXCEPT !.top_3_indices = idx,
                                !.top_3_predictions = Top3Predictions(k_vec, idx)]
    /\ k_pc' = "ranked"
    /\ UNCHANGED k_vec

KNext == KPredict \/ KTop3

SpecRank == KInit /\ [][KNext]_vars

\* ------------------------------- the classifier wrapper called directly
\* The image files handed to predictor.predict(image_path).
WImages == {"leaf", "blurry", "car", "odd"}

\* The Flask process after the module-level predictor was built; every
\* caller is about to call predictor.predict on that one instance.
WInit ==
    /\ boot = "serving"
    /\ model_file = "ok"
    /\ predictor = "loaded"
    /\ loads = 1
    /\ input_tensor = Nil
    /\ output_tensor = Nil
    /\ now = 0
    /\ files = <<>>
    /\ db = {}
    /\ pc = [r \in Requests |-> "start"]
    /\ upload = [r \in Requests |-> Nil]
    /\ filename = [r \in Requests |-> Nil]
    /\ verdict = [r \in Requests |-> None]
    /\ calls = [r \in Requests |-> 0]
    /\ fed = [r \in Requests |-> None]
    /\ result = [r \in Requests |-> Nil]
    /\ flash = [r \in Requests |-> None]
    /\ rendered = [r \in Requests |-> Nil]
    /\ StInit /\ FIdle /\ KIdle
    /\ w_pc = [c \in Callers |-> "idle"]
    /\ w_img = [c \in Callers |-> None]
    /\ w_res = [c \in Callers |-> Nil]

\* predict(image_path) up to self.interpreter.set_tensor: Image.open, convert
\* to RGB, resize, img_to_array, expand_dims. Image.open may raise.
WSetTensor(c) ==
    /\ UNCHANGED <<stVars, fVars, kVars>>
    /\ w_pc[c] = "idle"
    /\ \E id \in WImages :
         LET shape == TensorShape(ConvertMode(Images[id].mode))
         IN  /\ w_img' = [w_img EXCEPT ![c] = id]
             /\ IF Images[id].pil /\ shape = ModelInputShape
                THEN /\ input_tensor' = [shape |-> shape, pixels |-> id]
                     /\ w_pc' = [w_pc EXCEPT ![c] = "set"]
                ELSE /\ w_pc' = [w_pc EXCEPT ![c] = "raised"]
                     /\ UNCHANGED input_tensor
    /\ UNCHANGED <<boot, model_file, predictor, loads, output_tensor, now, files,
                   db, pc, upload, filename, verdict, calls, fed, result, flash,
                   rendered, w_res>>

\* self.interpreter.invoke()
WInvoke(c) ==
    /\ UNCHANGED <<stVars, fVars, kVars>>
    /\ w_pc[c] = "set"
    /\ output_tensor' = Forward(input_tensor)
    /\ w_pc' = [w_pc EXCEPT ![c] = "invoked"]
    /\ UNCHANGED <<boot, model_file, predictor, loads, input_tensor, now, files,
                   db, pc, upload, filename, verdict, calls, fed, result, flash,
                   rendered, w_img, w_res>>

\* predictions = get_tensor(...); predicted_class = np.argmax(predictions[0]);
\* confidence = predictions[0][predicted_class];
\* return predicted_class, confidence, predictions[0]
WGetTensor(c) ==
    /\ UNCHANGED <<stVars, fVars, kVars>>
    /\ w_pc[c] = "invoked"
    /\ LET predictions == output_tensor
           predicted_class == ArgMax(predictions)
           confidence == predictions[predicted_class]
       IN  w_res' = [w_res EXCEPT ![c] =
                        [class |-> predicted_class, confidence |-> confidence,
                         all |-> predictions]]
    /\ w_pc' = [w_pc EXCEPT ![c] = "returned"]
    /\ UNCHANGED <<boot, model_file, predictor, loads, input_tensor, output_tensor,
                   now, files, db, pc, upload, filename, verdict, calls, fed,
                   result, flash, rendered, w_img>>

WNext ==
    \/ \E c \in Callers : WSetTensor(c)
    \/ \E c \in Callers : WInvoke(c)
    \/ \E c \in Callers : WGetTensor(c)

SpecWrapper == WInit /\ [][WNext]_vars

\* ================================================================ claims

\* C1 (SpecFilter): on a decodable image is_plant_image accepts exactly when
\* more than 15% of the pixels are green and more than 2% are edges (exactly
\* 15% or exactly 2% is a reject), and validate_image_content returns
\* (True, 'Image validation passed.') exactly then, and (False, the fixed
\* not-plant message) otherwise.
C1_AcceptIffAboveThresholds ==
    (f_pc = "done" /\ f_img.cv = "ok") =>
        LET total == f_img.h * f_img.w
            accept == 20 * f_img.green > 3 * total /\ 50 * f_img.edge > total
        IN  /\ f_out.fn = "is_plant_image" =>
                 f_out.r = [exc |-> FALSE, ret |-> accept]
            /\ f_out.fn = "validate_image_content" =>
                 f_out.r.ret = IF accept THEN <<TRUE, MsgPassed>>
                               ELSE <<FALSE, MsgNotPlant>>

\* An image with exactly 15% green and plenty of edges has been rejected.
C1_Witness ==
    /\ f_pc = "done" /\ f_img.cv = "ok"
    /\ 20 * f_img.green = 3 * f_img.h * f_img.w
    /\ 50 * f_img.edge > f_img.h * f_img.w
    /\ f_out.fn = "validate_image_content"
    /\ f_out.r.ret = <<FALSE, MsgNotPlant>>

\* C2 (SpecFilter): for a file cv2 cannot read (imread returns None, or a
\* step of the filter raises) is_plant_image returns False and
\* validate_image_content returns the ordinary not-plant rejection; neither
\* lets an exception out, whatever the input.
C2_UndecodableIsRejected ==
    f_pc = "done" =>
        /\ ~f_out.r.exc
        /\ f_img.cv \in {"none", "raise"} =>
             /\ f_out.fn = "is_plant_image" => f_out.r.ret = FALSE
             /\ f_out.fn = "validate_image_content" =>
                  f_out.r.ret = <<FALSE, MsgNotPlant>>

\* validate_image_content has answered for a file on which a cv2 call raises.
C2_Witness ==
    /\ f_pc = "done" /\ f_img.cv = "raise"
    /\ f_out.fn = "validate_image_content"
    /\ f_out.r = [exc |-> FALSE, ret |-> <<FALSE, MsgNotPlant>>]

\* C3 (Spec): a request calls predictor.predict only after the filter has
\* accepted its upload; a request whose upload the filter rejected never
\* calls it and ends with the not-plant message.
C3_FilterBeforeClassifier ==
    \A r \in Requests :
        /\ calls[r] > 0 => verdict[r] = "accept"
        /\ verdict[r] = "reject" =>
             /\ calls[r] = 0 /\ fed[r] = None /\ result[r] = Nil
             /\ flash[r] = MsgNotPlant
             /\ pc[r] \in {"removing", "done"}

\* The car photo was rejected while the other request was classified.
C3_Witness ==
    \E r, q \in Requests :
        /\ pc[r] = "done" /\ verdict[r] = "reject" /\ upload[r].img = "car"
        /\ q # r /\ calls[q] > 0

\* C4 as claimed (Spec): with no predictor, every request that submits a
\* file ends with 'Model not available'.
C4_AnyUploadReportsModelUnavailable ==
    (boot = "serving" /\ predictor = None) =>
        \A r \in Requests :
            (pc[r] = "done" /\ upload[r] # NoFile /\ upload[r].name # <<>>) =>
                flash[r] = MsgModelUnavailable

\* C4 as amended (Spec): a missing or corrupt model file does not crash the
\* process and leaves predictor = None; then no request calls the predictor,
\* and every request whose file name has an allowed extension ends with
\* 'Model not available' (a disallowed file name is turned away first, with
\* 'Invalid file type').
C4_AllowedUploadReportsModelUnavailable ==
    /\ boot # "crashed"
    /\ (boot = "serving" /\ model_file # "ok") =>
         /\ predictor = None
         /\ \A r \in Requests :
              /\ calls[r] = 0 /\ fed[r] = None /\ result[r] = Nil
              /\ (pc[r] = "done" /\ upload[r] # NoFile /\ upload[r].name # <<>>
                  /\ allowed_file(upload[r].name)) =>
                     flash[r] = MsgModelUnavailable
              /\ (pc[r] = "done" /\ upload[r] # NoFile /\ upload[r].name # <<>>
                  /\ ~allowed_file(upload[r].name)) =>
                     flash[r] = MsgInvalidType

\* The load failed, and a .jpg and a .gif upload have both been answered.
C4_Witness ==
    /\ boot = "serving" /\ model_file = "corrupt" /\ predictor = None
    /\ \E r, q \in Requests :
         /\ pc[r] = "done" /\ upload[r] # NoFile /\ upload[r].name = NameJpg
         /\ flash[r] = MsgModelUnavailable
         /\ pc[q] = "done" /\ upload[q] # NoFile /\ upload[q].name = NameGif

\* C5 (Spec): a request whose inference returned a confidence below 0.3
\* gets the low-confidence message, is shown no disease and persists no
\* record; a confidence of 0.3 or more is never given that message.
C5_LowConfidenceRejected ==
    \A r \in Requests :
        result[r] # Nil =>
            /\ 10 * result[r].confidence < 3 * ProbDenom =>
                 /\ flash[r] = MsgLowConfidence
                 /\ rendered[r] = Nil
                 /\ \A p \in db : p.req # r
            /\ 10 * result[r].confidence >= 3 * ProbDenom =>
                 flash[r] # MsgLowConfidence

\* One request was rejected for low confidence, the other was shown its
\* diagnosis at a confidence of exactly 0.3.
C5_Witness ==
    \E r, q \in Requests :
        /\ pc[r] = "done" /\ result[r] # Nil
        /\ 10 * result[r].confidence < 3 * ProbDenom
        /\ pc[q] = "done" /\ result[q] # Nil
        /\ 10 * result[q].confidence = 3 * ProbDenom
        /\ rendered[q] # Nil

\* C6 (Spec): an undecodable upload that reaches the handler's processing
\* ends with an outcome of its own, which is neither the not-plant message
\* nor the low-confidence message.
C6_DecodeErrorDistinct ==
    \A r \in Requests :
        (/\ pc[r] = "done" /\ verdict[r] # None
         /\ Images[upload[r].img].cv = "none" /\ ~Images[upload[r].img].pil) =>
            flash[r] \notin {MsgNotPlant, MsgLowConfidence}

\* C7 (SpecRank): the predicted class is the first index holding the
\* vector's maximum and the confidence is the value there; the top-3 list
\* names three different classes in descending order of probability, no
\* class left out has a higher probability than the third, and each entry
\* pairs the class's label with its probability.
C7_ArgmaxAndTop3 ==
    k_pc = "ranked" =>
        LET idx == k_out.top_3_indices
            in3 == { idx[n] : n \in 1 .. 3 }
        IN  /\ k_out.class \in ClassIdx
            /\ \A j \in ClassIdx : k_vec[j] <= k_vec[k_out.class]
            /\ \A j \in ClassIdx : j < k_out.class => k_vec[j] < k_vec[k_out.class]
            /\ k_out.confidence = k_vec[k_out.class]
            /\ Len(idx) = 3 /\ in3 \subseteq ClassIdx /\ Cardinality(in3) = 3
            /\ k_vec[idx[1]] >= k_vec[idx[2]] /\ k_vec[idx[2]] >= k_vec[idx[3]]
            /\ \A j \in ClassIdx \ in3 : k_vec[j] <= k_vec[idx[3]]
            /\ \A n \in 1 .. 3 :
                 k_out.top_3_predictions[n] =
                     <<DISEASE_CLASSES[idx[n] + 1], k_vec[idx[n]]>>

\* A vector with four classes of different non-zero probability was ranked.
C7_Witness ==
    /\ k_pc = "ranked"
    /\ Cardinality({ j \in ClassIdx : k_vec[j] > 0 }) = 4
    /\ Cardinality({ k_vec[j] : j \in ClassIdx }) = 5

\* C8 (SpecStreamlit): the model file is loaded once and that instance
\* serves every classification request: the requests of a session never
\* add up to more than one load.
C8_LoadedOnce == st_loads <= 1

\* C9 (Spec): what predictor.predict returns to a request is the forward
\* pass of the image that request gave to set_tensor.
C9_OwnForwardPass ==
    \A r \in Requests :
        result[r] # Nil => result[r].all = Images[fed[r]].probs

\* C10 (SpecStreamlit): the tensor handed to set_tensor has the shape
\* (1, 256, 256, 3), whatever the mode of the uploaded image.
C10_TensorIsRGB ==
    st_tensor # Nil => st_tensor.shape = <<1, InputSide, InputSide, 3>>

\* C11: a call of predictor.predict returns what its own image determines:
\* any two returned calls that were handed the same image hold the same
\* predicted class, confidence and probability vector, whatever other calls
\* ran on the shared predictor meanwhile.
C11_SameImageSameResult ==
    \A c, d \in Callers :
        (w_pc[c] = "returned" /\ w_pc[d] = "returned" /\ w_img[c] = w_img[d])
            => w_res[c] = w_res[d]

\* C12: any two requests whose uploads save_uploaded_file has stored hold
\* different stored filenames, so neither writes to nor removes the file of
\* the other.
C12_DistinctStoredNames ==
    \A r, q \in Requests :
        (r # q /\ filename[r] # Nil /\ filename[q] # Nil)
            => filename[r] # filename[q]

\* C13: once every request has been answered, every file in the upload
\* folder is referenced by a persisted Prediction record: a request that
\* ended without a record has left no file behind.
C13_NoFileWithoutRecord ==
    (\A r \in Requests : pc[r] = "done")
        => \A f \in DOMAIN files : \E p \in db : p.image_filename = f

C15_Top1IsPrediction ==
    \A r \in Requests :
        rendered[r] # Nil =>
            /\ rendered[r].top_predictions[1] =
                   <<rendered[r].disease_name, rendered[r].confidence>>
            /\ \E i \in DOMAIN DISEASE_CLASSES :
                   DISEASE_CLASSES[i] = rendered[r].disease_name
            /\ rendered[r].disease_name \in DOMAIN DISEASE_TREATMENTS

=============================================================================
